---- MODULE Spec2Model ----
(***************************************************************************)
(* MEV-Shield server (src/unnamed/part_000): the protected-trade           *)
(* submission pipeline and its SQLite store, the Gemini risk analyzer and  *)
(* the /api/simulate handler, the local attack generator and the Socket.io *)
(* broadcast hub.                                                          *)
(*                                                                         *)
(* The server is one Node.js process: every handler body runs to its next  *)
(* suspension point (db.run, await) without interleaving, so an action is  *)
(* one such run.  SQLite executes queued statements one at a time, in any  *)
(* order among the statements pending outside db.serialize.                *)
(***************************************************************************)
EXTENDS Integers, Sequences, FiniteSets, TLC

\* ---------------------------------------------------------------- bounds
MaxReq == 2         \* /api/protect requests
MaxSim == 1         \* /api/simulate requests
MaxSess == 2        \* Socket.io connections
MaxAttacks == 2     \* /api/trigger-attack requests
MaxOld == 1         \* rows already in mevshield.db when the process starts
MaxArrivals == 3    \* requests and connections the server accepts in one run
MaxTradeLen == 5    \* characters of a text handed to geminiRiskAnalyzer on its own

Reqs == 1..MaxReq
SimReqs == 1..MaxSim
Sess == 1..MaxSess

\* ------------------------------------------------------------ constants
PRIVATE_MEMPOOL_ENABLED == TRUE
MEV_ATTACK_TYPES ==
  <<"Sandwich Attack", "Front-Run", "Arbitrage Exploitation", "Liquidation Attack">>

\* JavaScript values: a tag and, for a string or a number, its characters.
Undefined == [t |-> "undefined", v |-> <<>>]
Null == [t |-> "null", v |-> <<>>]
Str(chars) == [t |-> "string", v |-> chars]
Num(digits) == [t |-> "number", v |-> digits]

\* req.body.rawTransaction of a POST /api/protect: absent, "", or a string.
RawInputs ==
  { Undefined,
    Str(<<>>),
    Str(<<"0", "x", "d", "e", "a", "d", "b", "e", "e", "f">>) }

\* Math.random().toString(16).slice(2, 10): the hex digits of mockTxHash.
HexDraws == {"a1b2c3d4", "0f0f0f0f"}

VARIABLES
  storeState,       \* "init" | "ready" | "failed": db open + CREATE TABLE
  sqlite_master,    \* the schema of mevshield.db: the tables created in it
  protected_trades, \* the table: sequence of rows in insertion order
  sqlite_sequence,  \* AUTOINCREMENT: largest id ever assigned in the table
  preq,             \* per /api/protect request: position and locals
  presp,            \* per /api/protect request: the responses written to res
  appends,          \* per /api/protect request: db.run(INSERT) calls made
  attackCounter,    \* let attackCounter = 0
  lastAttack,       \* the attackMessage of the latest generateLocalAttack()
  sessState,        \* per socket: "new" | "connected" | "disconnected"
  inbox,            \* per socket: the packets emitted to it, in order
  triggered,        \* POST /api/trigger-attack requests answered
  ai,               \* whether the GoogleGenAI client was constructed
  sreq,             \* per /api/simulate request: position and locals
  sresp,            \* per /api/simulate request: the responses written to res
  tradeData,        \* geminiRiskAnalyzer called on its own: its argument
  prompt            \* geminiRiskAnalyzer called on its own: the prompt it picked

storeVars == <<storeState, sqlite_master, protected_trades, sqlite_sequence>>
protectVars == <<preq, presp, appends>>
hubVars == <<attackCounter, lastAttack, sessState, inbox, triggered>>
simVars == <<ai, sreq, sresp, tradeData, prompt>>

\* Requests and connections accepted so far.
Arrivals ==
  Cardinality({r \in Reqs : preq[r].pc # "idle"})
    + Cardinality({q \in SimReqs : sreq[q].pc # "idle"})
    + Cardinality({s \in Sess : sessState[s] # "new"})
    + attackCounter

\* ------------------------------------------------------------ event loop

\* A synchronous wait for the analyzer's answer: the one thread is held while
\* a call is outstanding.
BlockedWhileAnalyzing == \A q \in SimReqs : sreq[q].pc # "calling"

\* await ai.models.generateContent(...) and db.run(..., callback) return to
\* the event loop at once, so a handler or callback can run whatever is
\* outstanding.
EventLoopFree == TRUE

\* ---------------------------------------------------------------- store

\* !rawTransaction: undefined and "" are falsy, a non-empty string is truthy.
Falsy(v) == v.t \in {"undefined", "null"} \/ (v.t = "string" /\ v.v = <<>>)

\* `0xsim-log-${Math.random().toString(16).slice(2, 10)}`
mockTxHash(hex) == <<"0xsim-log-", hex>>

\* An id taken from the number of rows instead: the last id given again.
NextRowIdReuse == Len(protected_trades)

\* id INTEGER PRIMARY KEY AUTOINCREMENT: one more than the largest id the
\* table has ever held.
NextRowId == sqlite_sequence + 1

\* submitted_at DATETIME DEFAULT CURRENT_TIMESTAMP: the store's clock at the
\* INSERT, which no claim reads and which is left symbolic.
CURRENT_TIMESTAMP == "CURRENT_TIMESTAMP"

\* A row as the INSERT of /api/protect writes it.
Row(id, raw, hash, status) ==
  [id |-> id, raw_tx |-> raw, protection_relay_tx_hash |-> hash, status |-> status,
   submitted_at |-> CURRENT_TIMESTAMP]

\* INSERT OR REPLACE on a unique raw_tx: a row with the same content is
\* deleted and the new one takes its place.
InsertOrReplace(row) ==
  SelectSeq(protected_trades, LAMBDA old : old.raw_tx # row.raw_tx) \o <<row>>

\* INSERT OR IGNORE on a unique raw_tx: a second row with the same content is
\* not written.
InsertOrIgnore(row) ==
  IF \E i \in 1..Len(protected_trades) : protected_trades[i].raw_tx = row.raw_tx
    THEN protected_trades
    ELSE Append(protected_trades, row)

\* INSERT INTO protected_trades (...) VALUES (?, ?, ?): one more row, whatever
\* the table holds.
TableAfterInsert(row) == Append(protected_trades, row)

\* Rows a previous run of the server left in mevshield.db.
OldRow(i) == Row(i, Str(<<"0", "x", "0", "1">>), mockTxHash("0f0f0f0f"), "Submitted_Protected")

\* ------------------------------------------------- POST /api/protect

\* A request before it arrives: no locals yet.
IdleReq ==
  [pc |-> "idle", rawTransaction |-> Undefined, mockTxHash |-> <<>>,
   err |-> FALSE, lastID |-> 0]

\* if (rawTransaction === undefined): the empty string passes.
RejectsOnlyAbsent(rawTransaction) == rawTransaction.t = "undefined"

\* if (!rawTransaction)
Rejects(rawTransaction) == Falsy(rawTransaction)

\* res.status(400).json({ success: false, message: ... })
BadRequest ==
  [status |-> 400, success |-> FALSE,
   message |-> "Raw transaction data is required.", txHash |-> <<>>, dbId |-> 0]

\* res.status(500).json({ success: false, message: ... })
DbError ==
  [status |-> 500, success |-> FALSE,
   message |-> "Database error while logging trade.", txHash |-> <<>>, dbId |-> 0]

\* The connection's last insert rowid, read when the callback runs.
LastIDOfConnection(r) == sqlite_sequence

\* this.lastID in the callback of db.run: the rowid of this statement's INSERT.
LastID(r) == preq[r].lastID

\* mockTxHash kept in one variable of the module: the hash of the request
\* that arrived last.
txHashOfLatestRequest(r) ==
  preq[CHOOSE q \in Reqs :
         preq[q].pc # "idle" /\ \A p \in Reqs : preq[p].pc # "idle" => p <= q].mockTxHash

\* txHash: mockTxHash, the const of the handler that created the callback.
txHash(r) == preq[r].mockTxHash

\* res.json({ success: true, message, txHash: mockTxHash, dbId: this.lastID })
Logged(r) ==
  [status |-> 200, success |-> TRUE,
   message |-> "Trade successfully logged to Private MEV-Protection Relay.",
   txHash |-> txHash(r), dbId |-> LastID(r)]

\* The callback with the error branch falling through to the success response.
CallbackWritesNoReturn(r) ==
  IF preq[r].err THEN <<DbError, Logged(r)>> ELSE <<Logged(r)>>

\* What the callback of db.run writes to res: the error branch returns.
CallbackWrites(r) ==
  IF preq[r].err THEN <<DbError>> ELSE <<Logged(r)>>

\* The table is in the schema of the database file.
TableExists ==
  \E i \in 1..Len(sqlite_master) : sqlite_master[i] = "protected_trades"

\* CREATE TABLE protected_trades (...): an existing table is an error.
CreateTableFailsIfExists == ~TableExists

\* CREATE TABLE IF NOT EXISTS protected_trades (...): the statement can run
\* whether or not the table exists.
CreateTableRuns == TRUE

\* The schema after CREATE TABLE IF NOT EXISTS: the table is added when it
\* is not there.
SchemaAfterCreate ==
  IF TableExists THEN sqlite_master ELSE Append(sqlite_master, "protected_trades")

\* new sqlite3.Database(DB_PATH, cb) and initDb(): the connection opens and
\* CREATE TABLE IF NOT EXISTS runs; statements issued meanwhile stay queued.
InitDbOk ==
  /\ storeState = "init"
  /\ CreateTableRuns
  /\ storeState' = "ready"
  /\ sqlite_master' = SchemaAfterCreate
  /\ UNCHANGED <<protected_trades, sqlite_sequence, protectVars, hubVars, simVars>>

\* The connection or the CREATE TABLE reports an error: it is logged and the
\* process goes on.
InitDbFail ==
  /\ storeState = "init"
  /\ storeState' = "failed"
  /\ UNCHANGED <<sqlite_master, protected_trades, sqlite_sequence, protectVars, hubVars, simVars>>

\* The handler of POST /api/protect up to db.run: requests are numbered in
\* arrival order.
ProtectRequest(r, rawTransaction, hex) ==
  /\ EventLoopFree
  /\ preq[r].pc = "idle"
  /\ Arrivals < MaxArrivals
  /\ \A q \in 1..(r - 1) : preq[q].pc # "idle"
  /\ IF Rejects(rawTransaction)
       THEN /\ preq' = [preq EXCEPT ![r] =
                 [IdleReq EXCEPT !.pc = "done", !.rawTransaction = rawTransaction]]
            /\ presp' = [presp EXCEPT ![r] = Append(@, BadRequest)]
            /\ UNCHANGED appends
       ELSE /\ preq' = [preq EXCEPT ![r] =
                 [IdleReq EXCEPT !.pc = "queued", !.rawTransaction = rawTransaction,
                                 !.mockTxHash = mockTxHash(hex)]]
            /\ appends' = [appends EXCEPT ![r] = @ + 1]
            /\ UNCHANGED presp
  /\ UNCHANGED <<storeVars, hubVars, simVars>>

\* SQLite runs one queued INSERT: the row gets the next AUTOINCREMENT id, or
\* the statement fails and writes nothing.
StoreRunInsert(r) ==
  /\ preq[r].pc = "queued"
  /\ storeState # "init"
  /\ \E ok \in BOOLEAN :
       /\ storeState = "failed" => ~ok
       /\ IF ok
            THEN /\ protected_trades' = TableAfterInsert(
                      Row(NextRowId, preq[r].rawTransaction, preq[r].mockTxHash,
                          "Submitted_Protected"))
                 /\ sqlite_sequence' = NextRowId
                 /\ preq' = [preq EXCEPT ![r].pc = "executed", ![r].lastID = NextRowId]
            ELSE /\ preq' = [preq EXCEPT ![r].pc = "executed", ![r].err = TRUE]
                 /\ UNCHANGED <<protected_trades, sqlite_sequence>>
  /\ UNCHANGED <<storeState, sqlite_master, presp, appends, hubVars, simVars>>

\* A res kept in one variable of the module: the callback answers the request
\* that arrived last.
resOfLatestRequest(r) ==
  CHOOSE q \in Reqs : preq[q].pc # "idle" /\ \A p \in Reqs : preq[p].pc # "idle" => p <= q

\* res in the callback of db.run: the response of the request whose handler
\* created the callback.
res(r) == r

\* The error branch issuing the INSERT again.
CallbackRetriesOnError(r) == IF preq[r].err THEN "queued" ELSE "done"

\* Where the callback leaves the request: both branches end it, and no branch
\* calls db.run again.
CallbackLeaves(r) == "done"

\* function(err) { ... }: the callback of db.run
InsertCallback(r) ==
  /\ EventLoopFree
  /\ preq[r].pc = "executed"
  /\ presp' = [presp EXCEPT ![res(r)] = @ \o CallbackWrites(r)]
  /\ preq' = [preq EXCEPT ![r].pc = CallbackLeaves(r)]
  /\ UNCHANGED <<storeVars, appends, hubVars, simVars>>

\* ------------------------------------------- generator and Socket.io hub

\* Math.random(), in thousandths: the least and the greatest value it returns.
RandomDraws == {0, 999}

\* n.toString() for 0 <= n < 1000, as characters.
Digit(d) == <<"0", "1", "2", "3", "4", "5", "6", "7", "8", "9">>[d + 1]
ToChars(n) ==
  IF n < 10 THEN <<Digit(n)>>
  ELSE IF n < 100 THEN <<Digit(n \div 10), Digit(n % 10)>>
  ELSE <<Digit(n \div 100), Digit((n \div 10) % 10), Digit(n % 10)>>

\* id: attackCounter, with the increment left out.
CounterNotIncremented == attackCounter

\* generateLocalAttack() run twice for one message.
CounterIncrementedTwice == attackCounter + 2

\* attackCounter++ ; id: attackCounter
IncrementedCounter == attackCounter + 1

\* `0xTx${Math.random().toString(16).slice(2, 10)}${Date.now().toString().slice(-4)}`
\* for the hex digits drawn and a clock reading ending in 4321.
TxHexDraws == {<<"9", "e", "3", "7", "7", "9", "b", "9">>}
rawTxMock(hex) == <<"0", "x", "T", "x">> \o hex \o <<"4", "3", "2", "1">>

\* MEV_ATTACK_TYPES[Math.floor(Math.random() * MEV_ATTACK_TYPES.length)]
attackMethod(methodDraw) ==
  MEV_ATTACK_TYPES[((methodDraw * Len(MEV_ATTACK_TYPES)) \div 1000) + 1]

\* Math.floor(Math.random() * 100): a score over the whole range.
riskOutOfBand(riskDraw) == (riskDraw * 100) \div 1000

\* Math.floor(Math.random() * 50) + 50
risk(riskDraw) == ((riskDraw * 50) \div 1000) + 50

\* generateLocalAttack(): the attack message. Its value and timestamp, display
\* strings drawn afresh that nothing reads, are left out.
generateLocalAttack(hex, methodDraw, riskDraw) ==
  [id |-> IncrementedCounter,
   transaction |-> SubSeq(rawTxMock(hex), 1, 10) \o <<".", ".", ".">>,
   method |-> attackMethod(methodDraw),
   riskScore |-> ToChars(risk(riskDraw)) \o <<"/", "1", "0", "0">>,
   rationale |-> <<"Locally simulated. Attacker is monitoring ",
                   attackMethod(methodDraw), " opportunities.">>,
   status |-> "Local Simulation"]

\* No attack generated yet.
NoAttack ==
  [id |-> 0, transaction |-> <<>>, method |-> "", riskScore |-> <<>>,
   rationale |-> <<>>, status |-> ""]

\* The two packets the server emits.
StatusPacket ==
  [event |-> "STATUS", id |-> 0,
   message |-> <<"Connected to MEV-Shield server. Private Mempool Status: ",
                 IF PRIVATE_MEMPOOL_ENABLED THEN "Active (private mempool)" ELSE "Inactive",
                 ".">>]
AttackPacket(attackMessage) ==
  [event |-> "new_attack", id |-> attackMessage.id, message |-> <<>>]

\* Every socket that ever connected, the disconnected ones included.
EverConnected == {s \in Sess : sessState[s] # "new"}

\* io.emit: every socket connected to the namespace at the time of the call.
Connected == {s \in Sess : sessState[s] = "connected"}

\* io.emit('STATUS', ...): every connected socket besides the new one.
StatusToAll(s) == {q \in Sess : sessState[q] = "connected"} \cup {s}

\* socket.emit('STATUS', ...): the connecting socket alone.
StatusTo(s) == {s}

\* A connection handler that also sends the latest attack to the newcomer.
ConnectionReplaysLast ==
  IF attackCounter > 0 THEN <<StatusPacket, AttackPacket(lastAttack)>>
  ELSE <<StatusPacket>>

\* What the connection handler emits: the STATUS packet and nothing else.
ConnectionEmits == <<StatusPacket>>

\* io.on('connection'): sockets are numbered in connection order.
Connect(s) ==
  /\ EventLoopFree
  /\ sessState[s] = "new"
  /\ Arrivals < MaxArrivals
  /\ \A q \in 1..(s - 1) : sessState[q] # "new"
  /\ sessState' = [sessState EXCEPT ![s] = "connected"]
  /\ inbox' = [q \in Sess |->
       IF q \in StatusTo(s) THEN inbox[q] \o ConnectionEmits ELSE inbox[q]]
  /\ UNCHANGED <<attackCounter, lastAttack, triggered, storeVars, protectVars, simVars>>

\* socket.on('disconnect'): Socket.io drops the socket from the namespace.
Disconnect(s) ==
  /\ EventLoopFree
  /\ sessState[s] = "connected"
  /\ sessState' = [sessState EXCEPT ![s] = "disconnected"]
  /\ UNCHANGED <<attackCounter, lastAttack, inbox, triggered, storeVars, protectVars, simVars>>

\* A trigger that also writes the attack to protected_trades.
TriggerAttackStored(hex, methodDraw, riskDraw) ==
  /\ EventLoopFree
  /\ attackCounter < MaxAttacks
  /\ Arrivals < MaxArrivals
  /\ LET attackMessage == generateLocalAttack(hex, methodDraw, riskDraw) IN
       /\ attackCounter' = attackMessage.id
       /\ lastAttack' = attackMessage
       /\ inbox' = [q \in Sess |->
            IF q \in Connected THEN Append(inbox[q], AttackPacket(attackMessage))
            ELSE inbox[q]]
  /\ triggered' = triggered + 1
  /\ protected_trades' =
       TableAfterInsert(Row(NextRowId, Str(rawTxMock(hex)), <<>>, "Local Simulation"))
  /\ sqlite_sequence' = NextRowId
  /\ UNCHANGED <<sessState, storeState, sqlite_master, protectVars, simVars>>

\* POST /api/trigger-attack: broadcastAttack() and the response, in one turn.
TriggerAttack(hex, methodDraw, riskDraw) ==
  /\ EventLoopFree
  /\ attackCounter < MaxAttacks
  /\ Arrivals < MaxArrivals
  /\ LET attackMessage == generateLocalAttack(hex, methodDraw, riskDraw) IN
       /\ attackCounter' = attackMessage.id
       /\ lastAttack' = attackMessage
       /\ inbox' = [q \in Sess |->
            IF q \in Connected THEN Append(inbox[q], AttackPacket(attackMessage))
            ELSE inbox[q]]
  /\ triggered' = triggered + 1
  /\ UNCHANGED <<sessState, storeVars, protectVars, simVars>>

\* ------------------------------------- geminiRiskAnalyzer, /api/simulate

\* ${x} in a template literal.
TemplateChars(x) ==
  IF x.t = "undefined" THEN <<"u", "n", "d", "e", "f", "i", "n", "e", "d">>
  ELSE IF x.t = "null" THEN <<"n", "u", "l", "l">>
  ELSE x.v

\* req.body of a POST /api/simulate: { stock, action, quantity }, action absent,
\* a word, or a transaction token.
SimBodies ==
  { [stock |-> Str(<<"T", "A", "T", "A">>), action |-> a, quantity |-> Num(<<"1", "0">>)] :
      a \in {Undefined, Str(<<"B", "u", "y">>), Str(<<"0", "x", "T", "x", "9">>)} }

\* `${action} ${quantity} shares of ${stock} on a major Indian exchange.`
tradeDescription(body) ==
  TemplateChars(body.action) \o <<" ">> \o TemplateChars(body.quantity)
    \o <<" shares of ">> \o TemplateChars(body.stock)
    \o <<" on a major Indian exchange.">>

\* tradeData.startsWith(prefix)
StartsWith(chars, prefix) ==
  /\ Len(chars) >= Len(prefix)
  /\ SubSeq(chars, 1, Len(prefix)) = prefix

\* tradeData.toLowerCase().startsWith('0xtx'): the prefix in any case.
PromptTemplateAnyCase(text) ==
  IF /\ Len(text) >= 4
     /\ text[1] = "0" /\ text[2] = "x" /\ text[3] \in {"T", "t"} /\ text[4] = "x"
    THEN "simulate_attack"
    ELSE "assess_trade"

\* The prompt template chosen for tradeData.
PromptTemplate(text) ==
  IF StartsWith(text, <<"0", "x", "T", "x">>) THEN "simulate_attack"
  ELSE "assess_trade"

\* An analysis object { riskScore, attackType, rationale }.
Analysis(riskScore, attackType, rationale) ==
  [t |-> "object", riskScore |-> riskScore, attackType |-> attackType,
   rationale |-> rationale]

\* The fallback returned when the SDK is not initialised.
AiUnavailable ==
  Analysis(Str(<<"5", "0", "/", "1", "0", "0">>), Str(<<"AI Unavailable">>),
           Str(<<"Gemini API key missing or SDK not initialized. Using fallback analysis.">>))

\* The fallback returned from the catch block.
ApiError ==
  Analysis(Str(<<"5", "0", "/", "1", "0", "0">>), Str(<<"API Error/Unknown MEV">>),
           Str(<<"AI risk analysis failed due to API error/quota limit. Proceed with caution.">>))

\* How ai.models.generateContent settles: it rejects ("raise"), or resolves
\* with a response whose text is one of
\*   ok        {"riskScore":"85/100","attackType":"Sandwich Attack","rationale":"r"}
\*   noscore   {"attackType":"Front-Run","rationale":"r"}
\*   numscore  {"riskScore":85,"attackType":"Front-Run","rationale":"r"}
\*   notype    {"riskScore":"85/100","rationale":"r"}
\*   null      null
\*   notjson   Here is the analysis: ...
GeminiOutcomes ==
  {"raise", "ok", "noscore", "numscore", "notype", "null", "notjson"}

\* JSON.parse(response.text): the value, or a SyntaxError.
JSONParse(text) ==
  CASE text = "ok" ->
         [ok |-> TRUE, value |-> Analysis(Str(<<"8", "5", "/", "1", "0", "0">>),
                                Str(<<"Sandwich Attack">>), Str(<<"r">>))]
    [] text = "noscore" ->
         [ok |-> TRUE, value |-> Analysis(Undefined, Str(<<"Front-Run">>), Str(<<"r">>))]
    [] text = "numscore" ->
         [ok |-> TRUE, value |-> Analysis(Num(<<"8", "5">>), Str(<<"Front-Run">>),
                                          Str(<<"r">>))]
    [] text = "notype" ->
         [ok |-> TRUE, value |-> Analysis(Str(<<"8", "5", "/", "1", "0", "0">>),
                                          Undefined, Str(<<"r">>))]
    [] text = "null" -> [ok |-> TRUE, value |-> Null]
    [] OTHER -> [ok |-> FALSE, value |-> Undefined]

\* The try/catch of geminiRiskAnalyzer: what the call returns for an outcome
\* of generateContent.
AnalyzerReturns(outcome) ==
  IF outcome = "raise" THEN ApiError
  ELSE IF JSONParse(outcome).ok THEN JSONParse(outcome).value
  ELSE ApiError

\* chars.split('/')[0]
SplitHead(chars) ==
  LET at == {i \in 1..Len(chars) : chars[i] = "/"} IN
    IF at = {} THEN chars
    ELSE SubSeq(chars, 1, (CHOOSE i \in at : \A j \in at : i <= j) - 1)

\* analysis.riskScore.split('/')[0] throws a TypeError unless analysis is an
\* object whose riskScore is a string.
Throws(analysis) ==
  \/ analysis.t # "object"
  \/ analysis.riskScore.t # "string"

\* res.json({ success: true, simulation: { risk, details, attackType } })
Simulation(analysis) ==
  [success |-> TRUE, risk |-> SplitHead(analysis.riskScore.v),
   details |-> analysis.rationale, attackType |-> analysis.attackType]

IdleSim ==
  [pc |-> "idle", template |-> "", outcome |-> "", calls |-> 0, analysis |-> Undefined]

\* The analyzer without its check of the client: the call is always made.
CheckLeftOut == FALSE

\* if (!ai): no GEMINI_API_KEY was set, or the SDK failed to initialise.
Unconfigured == ~ai

\* The handler of POST /api/simulate up to the end of the await: with no SDK
\* the analyzer returns at once and the handler goes on in the same turn.
SimulateRequest(q, body) ==
  /\ EventLoopFree
  /\ sreq[q].pc = "idle"
  /\ Arrivals < MaxArrivals
  /\ \A p \in 1..(q - 1) : sreq[p].pc # "idle"
  /\ LET template == PromptTemplate(tradeDescription(body)) IN
       IF Unconfigured
         THEN /\ sreq' = [sreq EXCEPT ![q] =
                   [IdleSim EXCEPT !.pc = "done", !.template = template,
                                   !.outcome = "unconfigured", !.analysis = AiUnavailable]]
              /\ sresp' = [sresp EXCEPT ![q] = Append(@, Simulation(AiUnavailable))]
         ELSE /\ sreq' = [sreq EXCEPT ![q] =
                   [IdleSim EXCEPT !.pc = "calling", !.template = template, !.calls = 1]]
              /\ UNCHANGED sresp
  /\ UNCHANGED <<ai, tradeData, prompt, storeVars, protectVars, hubVars>>

\* generateContent settles: the analyzer returns and the handler builds the
\* response, or throws while building it.
GeminiSettles(q, outcome) ==
  /\ sreq[q].pc = "calling"
  /\ LET analysis == AnalyzerReturns(outcome) IN
       /\ sreq' = [sreq EXCEPT ![q].pc = IF Throws(analysis) THEN "threw" ELSE "done",
                               ![q].outcome = outcome, ![q].analysis = analysis]
       /\ sresp' = [sresp EXCEPT ![q] =
            IF Throws(analysis) THEN @ ELSE Append(@, Simulation(analysis))]
  /\ UNCHANGED <<ai, tradeData, prompt, storeVars, protectVars, hubVars>>

\* ------------------------------------------------------- specification
vars ==
  <<storeState, protected_trades, sqlite_sequence, preq, presp, appends,
    attackCounter, lastAttack, sessState, inbox, triggered, ai, sreq, sresp,
    tradeData, prompt, sqlite_master>>

\* The process as it starts, before any request.
ServerInit ==
  /\ storeState = "init"
  /\ \E k \in 0..MaxOld : protected_trades = [i \in 1..k |-> OldRow(i)]
  /\ sqlite_master \in {<<>>, <<"protected_trades">>}
  /\ protected_trades # <<>> => sqlite_master # <<>>
  /\ sqlite_sequence = Len(protected_trades)
  /\ preq = [r \in Reqs |-> IdleReq]
  /\ presp = [r \in Reqs |-> <<>>]
  /\ appends = [r \in Reqs |-> 0]
  /\ attackCounter = 0
  /\ lastAttack = NoAttack
  /\ sessState = [s \in Sess |-> "new"]
  /\ inbox = [s \in Sess |-> <<>>]
  /\ triggered = 0
  /\ ai \in BOOLEAN
  /\ sreq = [q \in SimReqs |-> IdleSim]
  /\ sresp = [q \in SimReqs |-> <<>>]

\* The server: the analyzer is reached through /api/simulate only.
Init ==
  /\ ServerInit
  /\ tradeData = <<>>
  /\ prompt = "none"

Next ==
  \/ InitDbOk
  \/ InitDbFail
  \/ \E r \in Reqs, raw \in RawInputs, hex \in HexDraws : ProtectRequest(r, raw, hex)
  \/ \E r \in Reqs : StoreRunInsert(r)
  \/ \E r \in Reqs : InsertCallback(r)
  \/ \E s \in Sess : Connect(s)
  \/ \E s \in Sess : Disconnect(s)
  \/ \E hex \in TxHexDraws, m \in RandomDraws, k \in RandomDraws : TriggerAttack(hex, m, k)
  \/ \E q \in SimReqs, body \in SimBodies : SimulateRequest(q, body)
  \/ \E q \in SimReqs, outcome \in GeminiOutcomes : GeminiSettles(q, outcome)

Spec == Init /\ [][Next]_vars

\* The submission pipeline and its store on their own: no other handler
\* reads or writes their state.
SubmitNext ==
  \/ InitDbOk
  \/ InitDbFail
  \/ \E r \in Reqs, raw \in RawInputs, hex \in HexDraws : ProtectRequest(r, raw, hex)
  \/ \E r \in Reqs : StoreRunInsert(r)
  \/ \E r \in Reqs : InsertCallback(r)

\* The SQLite worker runs every queued statement, the event loop runs every
\* completed statement's callback, and the store's start-up settles.
FairSubmitSpec ==
  /\ Init
  /\ [][SubmitNext]_vars
  /\ WF_vars(InitDbOk \/ InitDbFail)
  /\ \A r \in Reqs : WF_vars(StoreRunInsert(r))
  /\ \A r \in Reqs : WF_vars(InsertCallback(r))

\* The attack feed from the start of the process: sockets come and go and
\* trigger requests arrive as the clients choose.
FeedNext ==
  \/ InitDbOk
  \/ InitDbFail
  \/ \E s \in Sess : Connect(s)
  \/ \E s \in Sess : Disconnect(s)
  \/ \E hex \in TxHexDraws, m \in RandomDraws, k \in RandomDraws : TriggerAttack(hex, m, k)

\* What the process does by itself is the start-up of the store: the server
\* registers no timer, so nothing else is scheduled without a client.
FairFeedSpec ==
  /\ Init
  /\ [][FeedNext]_vars
  /\ WF_vars(InitDbOk \/ InitDbFail)

\* Texts for geminiRiskAnalyzer: every string of the characters of the prefix
\* and its near misses, the tokens the generator makes, and the descriptions
\* /api/simulate builds.
TradeChars == {"0", "x", "T", "t"}
TradeDataInputs ==
  UNION {[1..n -> TradeChars] : n \in 0..MaxTradeLen}
    \cup {rawTxMock(hex) : hex \in TxHexDraws}
    \cup {tradeDescription(body) : body \in SimBodies}

\* geminiRiskAnalyzer(tradeData) about to be called with one of the texts.
AnalyzerInit ==
  /\ ServerInit
  /\ tradeData \in TradeDataInputs
  /\ prompt = "none"

\* geminiRiskAnalyzer up to its check of the client: the prompt is chosen.
ChoosePrompt ==
  /\ prompt = "none"
  /\ prompt' = PromptTemplate(tradeData)
  /\ UNCHANGED <<tradeData, ai, sreq, sresp, storeVars, protectVars, hubVars>>

AnalyzerSpec == AnalyzerInit /\ [][ChoosePrompt]_vars

\* ------------------------------------------------------------- properties

\* The request has been accepted with a rawTransaction that passes as present.
NonEmptySubmission(r) ==
  /\ preq[r].pc # "idle"
  /\ preq[r].rawTransaction.t = "string"
  /\ preq[r].rawTransaction.v # <<>>

\* The request has been accepted with an empty or absent rawTransaction.
EmptySubmission(r) ==
  /\ preq[r].pc # "idle"
  /\ \/ preq[r].rawTransaction.t = "undefined"
     \/ preq[r].rawTransaction.v = <<>>

Succeeded(r) == Len(presp[r]) >= 1 /\ presp[r][1].success
StorageFailed(r) == Len(presp[r]) >= 1 /\ presp[r][1].status = 500

\* At most one result per submission, a success or a storage failure, and no
\* two successes with the same assignedId.
OneResultAtMost ==
  /\ \A r \in Reqs : NonEmptySubmission(r) =>
       /\ Len(presp[r]) <= 1
       /\ Len(presp[r]) = 1 =>
            \/ presp[r][1].status = 200 /\ presp[r][1].success /\ presp[r][1].dbId >= 1
            \/ presp[r][1].status = 500 /\ ~presp[r][1].success
  /\ \A r1, r2 \in Reqs :
       r1 # r2 /\ Succeeded(r1) /\ Succeeded(r2) => presp[r1][1].dbId # presp[r2][1].dbId

RejectStep(r) == preq[r].pc = "idle" /\ EmptySubmission(r)'

\* C2: an empty or absent rawTransaction gets the one client-input failure
\* (400, success false, a message) at once, with no append attempted and the
\* table as it was, whatever else is in flight.
C2_EmptyRejectedBeforeSideEffect ==
  /\ [](\A r \in Reqs : EmptySubmission(r) =>
          /\ preq[r].pc = "done"
          /\ Len(presp[r]) = 1
          /\ presp[r][1].status = 400 /\ ~presp[r][1].success /\ presp[r][1].message # ""
          /\ appends[r] = 0)
  /\ [][\A r \in Reqs : RejectStep(r) =>
          UNCHANGED <<storeState, protected_trades, sqlite_sequence, appends>>]_vars

\* An empty rawTransaction rejected while another submission's INSERT is
\* queued and a row is in the table.
C2_Witness ==
  \E r1, r2 \in Reqs :
    /\ preq[r1].pc = "queued"
    /\ preq[r2].pc = "done" /\ preq[r2].rawTransaction = Str(<<>>) /\ Len(presp[r2]) = 1
    /\ Len(protected_trades) = 1

\* C3: with submissions in flight together no append is lost and no id is
\* given twice: every success has its own row, and the ids of the rows are
\* pairwise distinct.
C3_NoLostNoDuplicateAppend ==
  /\ \A r \in Reqs : Succeeded(r) =>
       \E i \in 1..Len(protected_trades) :
         /\ protected_trades[i].id = presp[r][1].dbId
         /\ protected_trades[i].raw_tx = preq[r].rawTransaction
  /\ \A r1, r2 \in Reqs :
       r1 # r2 /\ Succeeded(r1) /\ Succeeded(r2) => presp[r1][1].dbId # presp[r2][1].dbId
  /\ \A i, j \in 1..Len(protected_trades) :
       i # j => protected_trades[i].id # protected_trades[j].id

\* Two submissions in flight together, both acknowledged, the later arrival's
\* INSERT having run first.
C3_Witness ==
  \E r1, r2 \in Reqs :
    /\ r1 < r2
    /\ Succeeded(r1) /\ Succeeded(r2)
    /\ presp[r2][1].dbId < presp[r1][1].dbId

\* C4: ids strictly increase in the order the rows were inserted, the i-th row
\* of the table's lifetime has id i (1, then 2, on an empty store), and no id
\* at or below the largest one assigned is assigned again.
C4_IdsStrictlyIncreasing ==
  /\ \A i, j \in 1..Len(protected_trades) :
       i < j => protected_trades[i].id < protected_trades[j].id
  /\ \A i \in 1..Len(protected_trades) : protected_trades[i].id = i
  /\ \A i \in 1..Len(protected_trades) : protected_trades[i].id <= sqlite_sequence
  /\ \A r \in Reqs : Succeeded(r) => presp[r][1].dbId \in 1..sqlite_sequence

\* On a store that started empty, two submissions acknowledged with 1 and 2.
C4_Witness ==
  /\ Len(protected_trades) = 2
  /\ \A i \in 1..2 : protected_trades[i].raw_tx \in RawInputs
  /\ \E r1, r2 \in Reqs :
       /\ Succeeded(r1) /\ presp[r1][1].dbId = 1
       /\ Succeeded(r2) /\ presp[r2][1].dbId = 2

\* ParseInt(chars): parseInt of the characters, -1 for NaN.
DigitValue(c) == CHOOSE d \in 0..9 : Digit(d) = c
IsDigit(c) == \E d \in 0..9 : Digit(d) = c
LeadingDigits(chars) ==
  LET stop == {i \in 1..Len(chars) : ~IsDigit(chars[i])} IN
    IF stop = {} THEN chars
    ELSE SubSeq(chars, 1, (CHOOSE i \in stop : \A j \in stop : i <= j) - 1)
RECURSIVE DigitsValue(_)
DigitsValue(ds) ==
  IF ds = <<>> THEN 0
  ELSE 10 * DigitsValue(SubSeq(ds, 1, Len(ds) - 1)) + DigitValue(ds[Len(ds)])
ParseInt(chars) ==
  IF LeadingDigits(chars) = <<>> THEN -1 ELSE DigitsValue(LeadingDigits(chars))

\* A RiskAssessment: riskScore an integer 0-100 once parsed, a non-empty
\* attackType, a rationale.
WellFormedAssessment(a) ==
  /\ a.t = "object"
  /\ a.riskScore.t = "string" /\ ParseInt(a.riskScore.v) \in 0..100
  /\ a.attackType.t = "string" /\ a.attackType.v # <<>>
  /\ a.rationale.t = "string"

\* The fixed fallback: riskScore 50, an unavailable/error attackType, a
\* non-empty rationale.
IsFallback(a) ==
  /\ WellFormedAssessment(a)
  /\ ParseInt(a.riskScore.v) = 50
  /\ a.attackType.v \in {<<"AI Unavailable">>, <<"API Error/Unknown MEV">>}
  /\ a.rationale.v # <<>>

\* The analyzer has returned for request q.
Analyzed(q) == sreq[q].pc \in {"done", "threw"}

\* C5: with no service configured, on an error of the external call, or on a
\* response that does not parse into the expected shape, analyze returns the
\* fixed fallback (the "unavailable" one when nothing is configured).
C5_FallbackOnEveryFailure ==
  \A q \in SimReqs : Analyzed(q) =>
    /\ sreq[q].outcome # "ok" => IsFallback(sreq[q].analysis)
    /\ sreq[q].outcome = "unconfigured" =>
         sreq[q].analysis.attackType.v = <<"AI Unavailable">>

\* C6: whatever the external service answers, analyze returns a well-formed
\* RiskAssessment.
C6_AlwaysWellFormed ==
  \A q \in SimReqs : Analyzed(q) => WellFormedAssessment(sreq[q].analysis)

\* C7: once the external call has returned or failed, the simulate request
\* has its response, built from the assessment.
C7_SimulateAlwaysAnswered ==
  \A q \in SimReqs : Analyzed(q) =>
    /\ sreq[q].pc = "done"
    /\ Len(sresp[q]) = 1
    /\ sresp[q][1].attackType = sreq[q].analysis.attackType

\* C8: a broadcast appends the new event to the stream of every socket that
\* is connected when it is made, and leaves every other socket's stream alone.
C8_BroadcastToConnectedOnly ==
  [][attackCounter' # attackCounter =>
       \A s \in Sess :
         IF sessState[s] = "connected"
           THEN inbox'[s] = Append(inbox[s],
                  [event |-> "new_attack", id |-> attackCounter', message |-> <<>>])
           ELSE inbox'[s] = inbox[s]]_vars

\* A socket that left before a broadcast which a still connected socket got.
C8_Witness ==
  \E s1, s2 \in Sess :
    /\ sessState[s1] = "disconnected" /\ sessState[s2] = "connected"
    /\ attackCounter >= 1
    /\ inbox[s2][Len(inbox[s2])].event = "new_attack"
    /\ inbox[s2][Len(inbox[s2])].id = attackCounter
    /\ \A i \in 1..Len(inbox[s1]) : inbox[s1][i].id # attackCounter

\* C9: in every socket's stream the attack events are in emission order:
\* their ids strictly increase.
C9_PerSessionEmissionOrder ==
  \A s \in Sess : \A i, j \in 1..Len(inbox[s]) :
    (i < j /\ inbox[s][i].event = "new_attack" /\ inbox[s][j].event = "new_attack")
      => inbox[s][i].id < inbox[s][j].id

\* A socket that has been sent two attack events.
C9_Witness ==
  \E s \in Sess :
    Cardinality({i \in 1..Len(inbox[s]) : inbox[s][i].event = "new_attack"}) >= 2

\* C10: a socket's stream starts with the one STATUS message, which names the
\* private mempool as active, and holds no other; a socket that never
\* connected has been sent nothing.
C10_StatusOnceOnConnect ==
  \A s \in Sess :
    IF sessState[s] = "new" THEN inbox[s] = <<>>
    ELSE /\ Len(inbox[s]) >= 1
         /\ inbox[s][1].event = "STATUS"
         /\ inbox[s][1].message[2] = "Active (private mempool)"
         /\ \A i \in 2..Len(inbox[s]) : inbox[s][i].event # "STATUS"

\* A socket that got its STATUS, then saw another socket connect and a
\* broadcast.
C10_Witness ==
  \E s1, s2 \in Sess :
    /\ s1 # s2
    /\ sessState[s1] = "connected" /\ sessState[s2] # "new"
    /\ Len(inbox[s1]) = 2 /\ inbox[s1][2].event = "new_attack"

\* C11: every generate() takes the id one above the previous one, 1 first, so
\* N calls give N distinct increasing ids, and every generated riskScore is
\* "n/100" with n in 50..99.
C11_GeneratedIdsAndRiskBand ==
  /\ [](/\ lastAttack.id = attackCounter
        /\ attackCounter >= 1 =>
             /\ ParseInt(lastAttack.riskScore) \in 50..99
             /\ SubSeq(lastAttack.riskScore, 3, Len(lastAttack.riskScore))
                  = <<"/", "1", "0", "0">>)
  /\ [][attackCounter' # attackCounter =>
          /\ attackCounter' = attackCounter + 1
          /\ lastAttack'.id = attackCounter + 1]_vars

\* Two attacks generated, the second with the highest score of the band.
C11_Witness ==
  /\ attackCounter = 2
  /\ lastAttack.id = 2
  /\ ParseInt(lastAttack.riskScore) = 99

\* C12: a failed INSERT is answered to the request that issued it, with one
\* 500 response carrying success false and a message, and nothing else
\* changes in the failing statement or in its callback: the table, the other
\* requests and their responses, the sockets and the analyses stay as they are.
C12_FailureReportedToCallerOnly ==
  [][\A r \in Reqs :
       /\ (preq[r].pc = "queued" /\ preq'[r].pc = "executed" /\ preq'[r].err) =>
            /\ UNCHANGED <<storeVars, presp, appends, hubVars, simVars>>
            /\ \A q \in Reqs \ {r} : preq'[q] = preq[q]
       /\ (preq[r].pc = "executed" /\ preq[r].err /\ preq'[r] # preq[r]) =>
            /\ preq'[r].pc = "done"
            /\ Len(presp'[r]) = Len(presp[r]) + 1
            /\ presp[r] = SubSeq(presp'[r], 1, Len(presp[r]))
            /\ presp'[r][Len(presp'[r])].status = 500
            /\ ~presp'[r][Len(presp'[r])].success
            /\ presp'[r][Len(presp'[r])].message # ""
            /\ \A q \in Reqs \ {r} : preq'[q] = preq[q] /\ presp'[q] = presp[q]
            /\ UNCHANGED <<storeVars, appends, hubVars, simVars>>]_vars

\* A submission has failed and been answered while a later one was in flight,
\* and the later one has succeeded with a socket connected.
C12_Witness ==
  \E r1, r2 \in Reqs :
    /\ r1 < r2
    /\ preq[r1].err /\ StorageFailed(r1) /\ preq[r1].pc = "done"
    /\ Succeeded(r2)
    /\ \E s \in Sess : sessState[s] = "connected"

\* C13: while the store is not ready, opening or failed to open, no submission
\* is processed to an append attempt or to a success result.
C13_NoSubmissionBeforeStoreReady ==
  storeState # "ready" =>
    \A r \in Reqs : appends[r] = 0 /\ ~Succeeded(r)

\* The rows this run's submissions have written: the rows of earlier runs
\* carry another raw_tx.
NewRows == {i \in 1..Len(protected_trades) : protected_trades[i].raw_tx \in RawInputs}

\* C14: a submission makes at most one append attempt, and a failed one is not
\* tried again: once its INSERT has failed the request only goes on to its
\* answer, it has no id, and the rows written are exactly those of the
\* statements that ran without error, then and later.
C14_OneAttemptNoRetry ==
  /\ \A r \in Reqs :
       /\ appends[r] <= 1
       /\ preq[r].err => preq[r].pc \in {"executed", "done"} /\ preq[r].lastID = 0
       /\ StorageFailed(r) => preq[r].err /\ preq[r].pc = "done"
  /\ Cardinality(NewRows) =
       Cardinality({r \in Reqs : preq[r].pc \in {"executed", "done"}
                                  /\ appends[r] = 1 /\ ~preq[r].err})

\* One submission has failed and been answered, another has been stored
\* after it, and the table holds the one row of the second.
C14_Witness ==
  \E r1, r2 \in Reqs :
    /\ StorageFailed(r1) /\ preq[r1].pc = "done" /\ appends[r1] = 1
    /\ Succeeded(r2) /\ preq[r2].lastID >= 1
    /\ Cardinality(NewRows) = 1

\* C15: a row of protected_trades, once written, is never changed or removed:
\* every step keeps the rows it found, with their id, raw_tx,
\* protection_relay_tx_hash, status and submitted_at, and can only add rows
\* after them; the status of every row is 'Submitted_Protected'.
C15_RecordsImmutable ==
  /\ [](\A i \in 1..Len(protected_trades) :
          protected_trades[i].status = "Submitted_Protected")
  /\ [][/\ Len(protected_trades') >= Len(protected_trades)
        /\ \A i \in 1..Len(protected_trades) :
             /\ protected_trades'[i].id = protected_trades[i].id
             /\ protected_trades'[i].raw_tx = protected_trades[i].raw_tx
             /\ protected_trades'[i].protection_relay_tx_hash
                  = protected_trades[i].protection_relay_tx_hash
             /\ protected_trades'[i].status = protected_trades[i].status
             /\ protected_trades'[i].submitted_at = protected_trades[i].submitted_at]_vars

\* Two submissions with the same rawTransaction and different hashes have been
\* stored after a row of an earlier run, and all three rows are in the table.
C15_Witness ==
  /\ Len(protected_trades) = 3
  /\ protected_trades[1].raw_tx \notin RawInputs
  /\ protected_trades[2].raw_tx = protected_trades[3].raw_tx
  /\ protected_trades[2].protection_relay_tx_hash
       # protected_trades[3].protection_relay_tx_hash
  /\ \A r \in Reqs : preq[r].pc = "done"

\* No submission is between its arrival and its answer.
NoneInFlight == \A r \in Reqs : preq[r].pc \in {"idle", "done"}

\* C16: submit does not deduplicate: every success result has a row of its
\* own carrying its id, its rawTransaction and its hash, also when another
\* submission had the same rawTransaction, and with no submission in flight
\* the rows written number the success results returned.
C16_SubmitNotIdempotent ==
  /\ \A r \in Reqs : Succeeded(r) =>
       \E i \in NewRows :
         /\ protected_trades[i].id = presp[r][1].dbId
         /\ protected_trades[i].raw_tx = preq[r].rawTransaction
         /\ protected_trades[i].protection_relay_tx_hash = presp[r][1].txHash
  /\ NoneInFlight =>
       Cardinality(NewRows) = Cardinality({r \in Reqs : Succeeded(r)})

\* Two submissions of the same rawTransaction have both succeeded, nothing is
\* in flight, and the table holds two rows with that content.
C16_Witness ==
  /\ NoneInFlight
  /\ \E r1, r2 \in Reqs :
       /\ r1 # r2
       /\ Succeeded(r1) /\ Succeeded(r2)
       /\ preq[r1].rawTransaction = preq[r2].rawTransaction
       /\ presp[r1][1].txHash = presp[r2][1].txHash
  /\ Cardinality(NewRows) = 2

\* C17: a trigger request generates once and broadcasts once: the step that
\* answers it raises attackCounter by exactly one and puts exactly one
\* new_attack packet, carrying the id just generated, on every connected
\* socket and none on the others; nothing else generates.
C17_OneGenerateOneBroadcast ==
  /\ [](triggered = attackCounter)
  /\ [][triggered' # triggered =>
          /\ triggered' = triggered + 1
          /\ attackCounter' = attackCounter + 1
          /\ lastAttack'.id = attackCounter'
          /\ \A s \in Sess :
               IF sessState[s] = "connected"
                 THEN /\ Len(inbox'[s]) = Len(inbox[s]) + 1
                      /\ inbox'[s][Len(inbox'[s])].event = "new_attack"
                      /\ inbox'[s][Len(inbox'[s])].id = lastAttack'.id
                 ELSE Len(inbox'[s]) = Len(inbox[s])]_vars

\* Two trigger requests answered with a socket connected throughout: it holds
\* the status packet and one packet per request.
C17_Witness ==
  /\ triggered = 2
  /\ \E s \in Sess :
       /\ sessState[s] = "connected"
       /\ Len(inbox[s]) = 3
       /\ inbox[s][2].id = 1 /\ inbox[s][3].id = 2

\* C18: the server runs a continuous loop that generates and pushes attacks:
\* with a socket connected and no trigger request made, an attack is
\* generated all the same (or the sockets have all gone).
C18_FeedRunsWithoutTrigger ==
  ((\E s \in Sess : sessState[s] = "connected") /\ triggered = 0)
    ~> (attackCounter > 0 \/ \A s \in Sess : sessState[s] # "connected")

\* An analyzer call or an INSERT is outstanding.
Outstanding ==
  \/ \E q \in SimReqs : sreq[q].pc = "calling"
  \/ \E r \in Reqs : preq[r].pc = "queued"

\* C19: an outstanding analyzer call or INSERT, which may never return, blocks
\* nothing else: in every such state a submission, a trigger, a connection
\* and another analysis can start (while the bounds leave room for one), every
\* finished INSERT's callback can answer, and every other queued INSERT and
\* analyzer call can complete.
C19_WaitsDoNotBlock ==
  Outstanding =>
    /\ Arrivals < MaxArrivals =>
         /\ (\E r \in Reqs : preq[r].pc = "idle") =>
              ENABLED (\E r \in Reqs, raw \in RawInputs, hex \in HexDraws :
                         ProtectRequest(r, raw, hex))
         /\ attackCounter < MaxAttacks =>
              ENABLED (\E hex \in TxHexDraws, m \in RandomDraws, k \in RandomDraws :
                         TriggerAttack(hex, m, k))
         /\ (\E s \in Sess : sessState[s] = "new") =>
              ENABLED (\E s \in Sess : Connect(s))
         /\ (\E q \in SimReqs : sreq[q].pc = "idle") =>
              ENABLED (\E q \in SimReqs, body \in SimBodies : SimulateRequest(q, body))
    /\ \A r \in Reqs :
         /\ preq[r].pc = "executed" => ENABLED InsertCallback(r)
         /\ (preq[r].pc = "queued" /\ storeState # "init") => ENABLED StoreRunInsert(r)
    /\ \A q \in SimReqs :
         sreq[q].pc = "calling" =>
           ENABLED (\E outcome \in GeminiOutcomes : GeminiSettles(q, outcome))

\* With an analyzer call still outstanding, a submission that arrived has been
\* stored and answered and a triggered attack has been generated.
C19_Witness ==
  /\ \E q \in SimReqs : sreq[q].pc = "calling"
  /\ \E r \in Reqs : preq[r].pc = "done" /\ Succeeded(r)
  /\ attackCounter = 1

\* C20: an analysis makes at most one request to the model service: none when
\* no client is configured, one otherwise, and still one after the call has
\* failed or answered with text that does not parse.
C20_AtMostOneExternalCall ==
  \A q \in SimReqs :
    /\ sreq[q].calls <= 1
    /\ ~ai => sreq[q].calls = 0
    /\ sreq[q].pc \in {"calling", "done", "threw"} => sreq[q].calls = (IF ai THEN 1 ELSE 0)
    /\ sreq[q].outcome \in {"raise", "notjson"} =>
         sreq[q].pc = "done" /\ sreq[q].calls = 1

\* An analysis whose one call failed has been answered with the fallback.
C20_Witness ==
  \E q \in SimReqs :
    /\ sreq[q].outcome = "raise"
    /\ sreq[q].calls = 1
    /\ sreq[q].analysis = ApiError
    /\ Len(sresp[q]) = 1

\* C21: the analyzer picks its prompt from the text alone: a text that begins
\* with the four characters 0xTx, as the generator's tokens do, gets the
\* attack-simulation prompt, every other text the trade-assessment prompt,
\* whether or not a client is configured, and never both or neither.
C21_TemplateFromInputShape ==
  prompt # "none" =>
    /\ prompt \in {"simulate_attack", "assess_trade"}
    /\ prompt = "simulate_attack" <=>
         /\ Len(tradeData) >= 4
         /\ tradeData[1] = "0" /\ tradeData[2] = "x"
         /\ tradeData[3] = "T" /\ tradeData[4] = "x"

\* A token of the generator has been given the attack-simulation prompt with
\* no client configured.
C21_Witness ==
  /\ ~ai
  /\ prompt = "simulate_attack"
  /\ tradeData \in {rawTxMock(hex) : hex \in TxHexDraws}

\* C22: initialising the store again is harmless: on a database file that
\* already holds the table the initialisation can still succeed, and when it
\* does the schema holds the table once and is the one it found, the rows and
\* the id sequence are the ones it found, and every row appended afterwards
\* has an id above the ids of all rows then in the table.
C22_SchemaCreationIdempotent ==
  /\ [](storeState = "init" => ENABLED InitDbOk)
  /\ [][(storeState = "init" /\ storeState' = "ready") =>
          /\ Cardinality({i \in 1..Len(sqlite_master') :
                            sqlite_master'[i] = "protected_trades"}) = 1
          /\ sqlite_master # <<>> => sqlite_master' = sqlite_master
          /\ protected_trades' = protected_trades
          /\ sqlite_sequence' = sqlite_sequence]_vars
  /\ [][\A i \in (Len(protected_trades) + 1)..Len(protected_trades') :
          \A j \in 1..Len(protected_trades) :
            protected_trades'[i].id > protected_trades[j].id]_vars

\* The store was initialised on a file that held the table and a row, and a
\* submission has since been stored under the next id.
C22_Witness ==
  /\ storeState = "ready"
  /\ sqlite_master = <<"protected_trades">>
  /\ Len(protected_trades) = 2
  /\ protected_trades[1].raw_tx \notin RawInputs
  /\ protected_trades[2].raw_tx \in RawInputs
  /\ protected_trades[2].id = protected_trades[1].id + 1

\* The rows carrying the id a success answer of request r returned.
RowsOfAck(r) ==
  {i \in 1..Len(protected_trades) : protected_trades[i].id = presp[r][1].dbId}

\* C23: a success answer agrees with the table: exactly one row has the dbId
\* returned, it is the row this request's INSERT wrote, with this request's
\* rawTransaction and the txHash returned, in whatever order the INSERTs ran,
\* and no two callers are given the same row.
C23_AckConsistentWithStore ==
  /\ \A r \in Reqs : Succeeded(r) =>
       /\ Cardinality(RowsOfAck(r)) = 1
       /\ presp[r][1].dbId = preq[r].lastID
       /\ presp[r][1].txHash = preq[r].mockTxHash
       /\ \A i \in RowsOfAck(r) :
            /\ protected_trades[i].raw_tx = preq[r].rawTransaction
            /\ protected_trades[i].protection_relay_tx_hash = presp[r][1].txHash
  /\ \A r1, r2 \in Reqs :
       (r1 # r2 /\ Succeeded(r1) /\ Succeeded(r2)) => RowsOfAck(r1) # RowsOfAck(r2)

\* Two submissions with different hashes were stored in the reverse of their
\* arrival order and both have been answered.
C23_Witness ==
  \E r1, r2 \in Reqs :
    /\ r1 < r2
    /\ Succeeded(r1) /\ Succeeded(r2)
    /\ presp[r1][1].txHash # presp[r2][1].txHash
    /\ presp[r1][1].dbId = presp[r2][1].dbId + 1
    /\ protected_trades[Len(protected_trades)].protection_relay_tx_hash = presp[r1][1].txHash

\* The ids of the new_attack packets socket s has been sent, in order.
AttackIdsSeen(s) ==
  LET attacks == SelectSeq(inbox[s], LAMBDA pkt : pkt.event = "new_attack")
  IN  [k \in 1..Len(attacks) |-> attacks[k].id]

\* C24: attacks are not kept for later: a trigger with no socket connected
\* still takes the next id and sends nothing, a connecting socket is sent no
\* attack, a socket that is not connected is sent nothing, and a socket
\* that stays connected over a trigger is sent the id just generated; so the
\* ids a socket has seen are consecutive, and those of a connected socket end
\* at the latest id.
C24_NoStoreNoReplay ==
  /\ [](\A s \in Sess :
          LET ids == AttackIdsSeen(s) IN
            /\ \A k \in 1..(Len(ids) - 1) : ids[k + 1] = ids[k] + 1
            /\ (sessState[s] = "connected" /\ ids # <<>>) =>
                 ids[Len(ids)] = attackCounter
            /\ ids # <<>> => ids[Len(ids)] <= attackCounter)
  /\ [][\A s \in Sess :
          /\ sessState[s] # "connected" => AttackIdsSeen(s)' = AttackIdsSeen(s)
          /\ (sessState[s] = "connected" /\ attackCounter' # attackCounter) =>
               AttackIdsSeen(s)' = Append(AttackIdsSeen(s), attackCounter')
          /\ (sessState[s] = "connected" /\ attackCounter' = attackCounter) =>
               AttackIdsSeen(s)' = AttackIdsSeen(s)]_vars
  /\ [][((\A s \in Sess : sessState[s] # "connected") /\ triggered' # triggered) =>
          (attackCounter' = attackCounter + 1 /\ inbox' = inbox)]_vars

\* The first attack was generated with no socket connected; a socket that
\* connected afterwards has seen the second attack only.
C24_Witness ==
  /\ attackCounter = 2
  /\ \E s \in Sess :
       /\ sessState[s] = "connected"
       /\ AttackIdsSeen(s) = <<2>>
       /\ \A q \in Sess \ {s} : sessState[q] = "new"

\* C25: the attack path and the request paths keep apart: the step that
\* answers a trigger leaves the store, the submissions and the analyses
\* (their calls to the model service included) as they are, and a step that
\* changes a submission, the table or an analysis leaves the attack counter,
\* the latest attack, the sockets and what they have been sent as they are.
C25_AttackPathFrame ==
  [][/\ triggered' # triggered =>
          /\ UNCHANGED <<storeState, sqlite_master, protected_trades, sqlite_sequence>>
          /\ UNCHANGED <<preq, presp, appends>>
          /\ UNCHANGED <<ai, sreq, sresp>>
     /\ (\/ preq' # preq \/ presp' # presp \/ appends' # appends
         \/ protected_trades' # protected_trades
         \/ sreq' # sreq \/ sresp' # sresp) =>
          UNCHANGED <<attackCounter, lastAttack, sessState, inbox, triggered>>]_vars

\* A socket has been sent the one attack triggered, an analysis has called
\* the model service and been answered, and the table is as the process
\* found it.
C25_Witness ==
  /\ attackCounter = 1
  /\ \E s \in Sess : sessState[s] = "connected" /\ AttackIdsSeen(s) = <<1>>
  /\ \E q \in SimReqs : sreq[q].pc = "done" /\ sreq[q].calls = 1 /\ Len(sresp[q]) = 1
  /\ \A i \in 1..Len(protected_trades) : protected_trades[i].raw_tx \notin RawInputs
  /\ \A r \in Reqs : preq[r].pc = "idle"

====
